---- MODULE Spec2Model ----
(***************************************************************************)
(* Agent session streaming: the invoke_agent endpoint                      *)
(* (server/routers/agent.py) and the normaliser it consumes                *)
(* (server/services/agent.py: stream_agent_response).                      *)
(*                                                                         *)
(* One invocation is a cooperatively scheduled task.  Every action below   *)
(* runs the code from one suspension point (an await or a yield) to the    *)
(* next.  Python strings are TLA+ strings, Python None is the value None,  *)
(* dicts are records.                                                      *)
(***************************************************************************)
EXTENDS Integers, Sequences, FiniteSets, TLC

\* ------------------------------------------------------------------ bounds
\* Native messages the runtime may produce in one turn.
MaxMsgs == 2

\* --------------------------------------------------------------- values
None == "None"

\* Python truthiness of an Optional[str].
Truthy(s) == s # None /\ s # ""

\* The invocations (request handlers) of the model.
Inv == {1, 2}

\* Projects that ProjectStorage.get finds.
ExistingProjects == {"p1"}

\* Conversation ids: "c1" exists at start, "cx" never does, NewId(i) is the
\* uuid given to the conversation invocation i creates.
NewId(i) == IF i = 1 THEN "n1" ELSE "n2"

\* SystemMessage.data values: Python None, a dict without a session id,
\* a dict with one.
NoData == [py_none |-> TRUE]
InitData(t) == [session_id |-> t]
OtherData == [cwd |-> "/proj"]

DataTruthy(d) == d # NoData
DataGet(d, k) == IF k \in DOMAIN d THEN d[k] ELSE None

\* str(e) of the exceptions the collaborators raise.
ErrTexts == {"", "boom"}

\* Request bodies (InvokeAgentRequest): every project and conversation id
\* with each of three message and cluster id pairs.
Bodies ==
  { [project_id |-> p, conversation_id |-> c, message |-> mk[1], cluster_id |-> mk[2]] :
      p \in {"p1", "px"}, c \in {None, "", "c1", "cx"},
      mk \in { <<"", None>>, <<"hi", "k1">>, <<"hi", "">> } }

\* Content blocks of an AssistantMessage.
TextBlock(t) == [block |-> "TextBlock", text |-> t]
ThinkingBlock == [block |-> "ThinkingBlock", thinking |-> "hm"]
ToolUseBlock(inp) == [block |-> "ToolUseBlock", id |-> "u1", name |-> "Read", input |-> inp]
ToolResultBlock == [block |-> "ToolResultBlock", tool_use_id |-> "u1", content |-> "ok", is_error |-> FALSE]
OtherBlock == [block |-> "OtherBlock"]

\* A tool input json.dumps cannot encode.
Unserializable == "<object>"

\* Native messages (claude_code_sdk.types).
AssistantMessage(c) == [kind |-> "AssistantMessage", content |-> c]
ResultMessage(t, e) == [kind |-> "ResultMessage", session_id |-> t, is_error |-> e]
SystemMessage(s, d) == [kind |-> "SystemMessage", subtype |-> s, data |-> d]
UserMessage == [kind |-> "UserMessage"]
StreamEvent == [kind |-> "StreamEvent", event |-> "delta", session_id |-> "T1"]
OtherMessage == [kind |-> "OtherMessage"]

AssistantContents ==
  { <<>>,
    <<TextBlock("a")>>, <<TextBlock("b")>>, <<TextBlock("")>>,
    <<ThinkingBlock>>, <<ToolUseBlock("{}")>>, <<ToolUseBlock(Unserializable)>>,
    <<ToolResultBlock>>, <<OtherBlock>>,
    <<TextBlock("a"), TextBlock("b")>>,
    <<OtherBlock, TextBlock("a")>> }

NativeMsgs ==
  { AssistantMessage(c) : c \in AssistantContents }
  \cup { ResultMessage(t, e) : t \in {None, "T2"}, e \in {FALSE} }
  \cup { SystemMessage("init", InitData("T1")), SystemMessage("init", NoData),
         SystemMessage("status", InitData("T1")), SystemMessage("init", OtherData) }
  \cup { UserMessage, StreamEvent, OtherMessage }


\* ------------------------------------------------- services/agent.py
\* Mutant: a block that is not a text block is reported as an error.
BlockEvents_Strict(b) ==
  IF b.block = "TextBlock" THEN << [type |-> "text", text |-> b.text] >>
  ELSE << [type |-> "error", error |-> "unknown block"] >>

\* The event dict stream_agent_response yields for one content block, as a
\* sequence of zero or one events (a block of no known class yields none).
BlockEvents(b) ==
  IF b.block = "TextBlock" THEN << [type |-> "text", text |-> b.text] >>
  ELSE IF b.block = "ThinkingBlock" THEN << [type |-> "thinking", thinking |-> b.thinking] >>
  ELSE IF b.block = "ToolUseBlock"
    THEN << [type |-> "tool_use", tool_id |-> b.id, tool_name |-> b.name, tool_input |-> b.input] >>
  ELSE IF b.block = "ToolResultBlock"
    THEN << [type |-> "tool_result", tool_use_id |-> b.tool_use_id, content |-> b.content,
             is_error |-> b.is_error] >>
  ELSE << >>

RECURSIVE ContentEvents(_)
ContentEvents(c) ==
  IF c = << >> THEN << >> ELSE BlockEvents(Head(c)) \o ContentEvents(Tail(c))

\* The events one native message is normalised to, in order.
Normalise(msg) ==
  IF msg.kind = "AssistantMessage" THEN ContentEvents(msg.content)
  ELSE IF msg.kind = "ResultMessage"
    THEN << [type |-> "result", session_id |-> msg.session_id, is_error |-> msg.is_error] >>
  ELSE IF msg.kind = "SystemMessage"
    THEN << [type |-> "system", subtype |-> msg.subtype, data |-> msg.data] >>
  ELSE IF msg.kind = "UserMessage" THEN << >>
  ELSE IF msg.kind = "StreamEvent"
    THEN << [type |-> "stream_event", event |-> msg.event, session_id |-> msg.session_id] >>
  ELSE << >>

\* The event yielded by the except clause around query().
ErrorEvent(e) == [type |-> "error", error |-> e]

\* ------------------------------------------------- routers/agent.py
\* sse_event: 'data: ' + json.dumps(data) + two newlines.
sse_event(d) == [sse |-> "data", json |-> d]

\* The literal terminal frame.
DoneFrame == [sse |-> "data", raw |-> "[DONE]"]

\* json.dumps raises TypeError on a value it cannot encode.
Serializable(d) == ~(d.type = "tool_use" /\ d.tool_input = Unserializable)
SerializeError == "Object is not JSON serializable"

ErrorStreamFrames(error, message) ==
  << sse_event([type |-> "error", error |-> error, message |-> message]), DoneFrame >>

ProjectNotFound(b) ==
  ErrorStreamFrames("Project not found: " \o b.project_id, "Please verify the project exists")

ConversationNotFound(cid) ==
  ErrorStreamFrames("Conversation not found: " \o cid, "")

TitleLimit == 50

Min(a, b) == IF a < b THEN a ELSE b

\* Mutant: the ellipsis is added from the limit on, not beyond it.
Title_EllipsisAtLimit(m) ==
  SubSeq(m, 1, Min(TitleLimit, Len(m))) \o (IF Len(m) >= TitleLimit THEN "..." ELSE "")

\* body.message[:50] + ('...' if len(body.message) > 50 else '')
Title(m) ==
  SubSeq(m, 1, Min(TitleLimit, Len(m))) \o (IF Len(m) > TitleLimit THEN "..." ELSE "")

CreatedFrame(cid) == sse_event([type |-> "conversation.created", conversation_id |-> cid])

\* The event types the loop of stream_and_store has a branch for.
RouterHandles(ev) ==
  ev.type \in {"text", "thinking", "tool_use", "tool_result", "result", "error", "system"}

\* Mutant: thinking is accumulated into the transcript as well.
TextAfter_Thinking(ev, ft) ==
  IF ev.type = "text" THEN ft \o ev.text
  ELSE IF ev.type = "thinking" THEN ft \o ev.thinking
  ELSE ft

\* final_text after the branch for ev.
TextAfter(ev, ft) == IF ev.type = "text" THEN ft \o ev.text ELSE ft

\* new_session_id after the branch for ev.
SessionAfter(ev, ns) ==
  IF ev.type = "result" THEN ev.session_id
  ELSE IF ev.type = "system" /\ ev.subtype = "init" /\ DataTruthy(ev.data) /\ ~Truthy(ns)
    THEN DataGet(ev.data, "session_id")
  ELSE ns

\* error_message after the branch for ev.
ErrorAfter(ev, em) == IF ev.type = "error" THEN ev.error ELSE em

\* The dict the branch for ev hands to sse_event.
Payload(ev, ns) ==
  IF ev.type = "text" THEN [type |-> "text", text |-> ev.text]
  ELSE IF ev.type = "thinking" THEN [type |-> "thinking", thinking |-> ev.thinking]
  ELSE IF ev.type = "tool_use"
    THEN [type |-> "tool_use", tool_id |-> ev.tool_id, tool_name |-> ev.tool_name,
          tool_input |-> ev.tool_input]
  ELSE IF ev.type = "tool_result"
    THEN [type |-> "tool_result", tool_use_id |-> ev.tool_use_id, content |-> ev.content,
          is_error |-> ev.is_error]
  ELSE IF ev.type = "result"
    THEN [type |-> "result", session_id |-> ns, is_error |-> ev.is_error]
  ELSE IF ev.type = "error" THEN [type |-> "error", error |-> ev.error]
  ELSE [type |-> "system", subtype |-> ev.subtype, data |-> ev.data]

\* The frame of the except clause of stream_and_store.
ExceptFrame(e) == sse_event([type |-> "error", error |-> e])

\* if final_text or error_message
SavesAssistant(ft, em) == ft # "" \/ Truthy(em)

\* Mutant: the error text is added to the accumulated text.
AssistantContent_WithError(ft, em) ==
  IF em # None THEN ft \o "Error: " \o em ELSE ft

\* content = final_text if final_text else f'Error: {error_message}'
AssistantContent(ft, em) == IF ft # "" THEN ft ELSE "Error: " \o em

\* Mutant: the completion flag tests the error message for truthiness.
IsError_Truthy(em) == Truthy(em)

\* is_error=error_message is not None
IsError(em) == em # None

CompletedFrame(em) == sse_event([type |-> "stream.completed", is_error |-> IsError(em)])

\* ------------------------------------------ tools (services/agent.py)
BUILTIN_TOOLS == << "Read", "Write", "Edit", "Glob", "Grep", "Skill" >>

\* Mutant: the discovered names replace the list instead of extending it.
Extended_Replaced(allowed, names) == names

\* if databricks_tools: allowed_tools.extend(databricks_tools)
Extended(allowed, names) == IF names # << >> THEN allowed \o names ELSE allowed

\* Mutant: allowed_tools is BUILTIN_TOOLS itself, not a copy of it.
SharedAfterExtend_Aliased(shared, names) == Extended(shared, names)

\* BUILTIN_TOOLS after allowed_tools was extended: allowed_tools is a copy.
SharedAfterExtend(shared, names) == shared

\* What one remote tool listing does: it returns names or it fails.
Listed(names) == [ok |-> TRUE, names |-> names]
ListingFails == [ok |-> FALSE, names |-> << >>]

\* The cache of get_databricks_mcp_tools: empty, or filled with one list.
NoCache == << >>

\* get_databricks_mcp_tools: the cached list when there is one, else the
\* remote listing; a failed listing degrades to no names.
ToolsReturned(cache, remote) ==
  IF cache # NoCache THEN cache[1]
  ELSE IF remote.ok THEN remote.names
  ELSE << >>

\* The exception get_databricks_mcp_tools lets out to its caller: none, a
\* failed listing is logged and degrades to the builtin list.
ListingError(cache, remote) == None

\* Mutant: a caller that finds the cache empty starts a listing of its own.
StartsListing_Unguarded(cache, inflight) == cache = NoCache

\* A caller of get_databricks_mcp_tools starts the remote listing when the
\* cache is empty and no listing is in flight; otherwise it uses the cache or
\* waits for the listing in flight.
StartsListing(cache, inflight) == cache = NoCache /\ inflight = 0

\* What get_databricks_mcp_tools hands to a caller.
Handed(names, err) == [names |-> names, err |-> err]

\* A caller that still waits for the listing has been handed nothing.
Waiting == << >>

\* The cache is filled by the first listing that succeeds.
CacheAfter(cache, remote) ==
  IF cache # NoCache THEN cache
  ELSE IF remote.ok THEN << remote.names >>
  ELSE cache

\* ------------------------------------------------- inputs for titles
\* The longest message of the title specification.
MaxLen == 60

LongMessage == "abcdefghijklmnopqrstuvwxyzABCDEFGHIJKLMNOPQRSTUVWXYZ0123456789"

\* Requests that open a conversation, with messages of every length to MaxLen.
TitleBodies ==
  { [project_id |-> "p1", conversation_id |-> None,
     message |-> SubSeq(LongMessage, 1, n), cluster_id |-> None] : n \in 0..MaxLen }

\* ------------------------------------- inputs for two invocations
\* Requests of project p1 that resume conversation c1 or open a new one.
ManyBodies ==
  { [project_id |-> "p1", conversation_id |-> c, message |-> "hi", cluster_id |-> "k1"] :
      c \in {"c1", None} }

\* The session token the runtime of invocation i reports.
TokenOf(i) == IF i = 1 THEN "T1" ELSE "T2"

\* What the runtime of invocation i may produce.
ManyMsgs(i) ==
  { ResultMessage(TokenOf(i), FALSE) } \cup (IF i = 1 THEN { ResultMessage(None, FALSE) } ELSE { })

\* What a remote tool listing may do.
Listings == { ListingFails, Listed(<< >>), Listed(<< "mcp__a", "mcp__b" >>) }

\* ------------------------------------- inputs for token capture
\* The longest native sequence of the token specification.
MaxTokenMsgs == 3

\* A request that opens a conversation.
TokenBodies ==
  { [project_id |-> "p1", conversation_id |-> None, message |-> "hi", cluster_id |-> "k1"] }

\* The native messages that carry, or could carry, a session token.
TokenMsgs ==
  { SystemMessage("init", InitData("T1")), SystemMessage("init", InitData("T3")),
    SystemMessage("status", InitData("T1")),
    ResultMessage("T2", FALSE), ResultMessage(None, FALSE) }

\* ------------------------------------- inputs for termination
\* Native messages per turn in the specification of termination.
MaxLiveMsgs == 1

\* Bodies naming a project that is missing, a conversation that is missing,
\* an existing conversation, and none.
LiveBodies ==
  { [project_id |-> pc2[1], conversation_id |-> pc2[2], message |-> "hi", cluster_id |-> "k1"] :
      pc2 \in { <<"px", None>>, <<"p1", "cx">>, <<"p1", "c1">>, <<"p1", None>> } }

\* A result with a token, and a tool use whose input cannot be serialised.
LiveMsgs == { ResultMessage("T1", FALSE), AssistantMessage(<< ToolUseBlock(Unserializable) >>) }

\* ------------------------------------------------------------ state
VARIABLES
  convs,           \* conversations table: id -> [title, session_id, cluster_id]
  messages,        \* messages table, in insertion order
  backup,          \* projects handed to mark_for_backup, in call order
  pc,              \* where each invocation is suspended
  body,            \* the request body
  conversation_id, \* local of invoke_agent
  session_id,      \* local of invoke_agent: the token read at resolution
  final_text,      \* local of stream_and_store
  new_session_id,  \* local of stream_and_store
  error_message,   \* local of stream_and_store
  frames,          \* frames the response has yielded so far
  pending,         \* frames the error generator has still to yield
  queue,           \* events of the current native message not yet yielded
  gen,             \* stream_agent_response: "none", "running", "ended"
  pulled,          \* native messages the runtime has produced this turn
  calls,           \* resume tokens query() was called with
  effects,         \* storage and backup calls that succeeded, in order
  failed,          \* the storage or backup call that raised, or None
  closedAt,        \* the suspension point the client left at, or None
  builtin_tools,   \* the module-level list BUILTIN_TOOLS
  mcp_servers,     \* what get_databricks_mcp_config returns in this process
  tools_cache,     \* the process-wide tool list cache of get_databricks_mcp_tools
  allowed_tools,   \* local of stream_agent_response
  in_flight,       \* remote tool listings started and not yet returned
  remote_calls,    \* remote tool listings started so far
  delivered        \* what get_databricks_mcp_tools handed to each caller

store == <<convs, messages, backup>>
args == <<body, conversation_id, session_id>>
accum == <<final_text, new_session_id, error_message>>
inner == <<queue, gen, pulled, calls>>
listing == <<tools_cache, in_flight, remote_calls, delivered>>
tools == <<builtin_tools, mcp_servers, allowed_tools, listing>>
vars == <<convs, messages, backup, pc, body, conversation_id, session_id, final_text,
          new_session_id, error_message, frames, pending, queue, gen, pulled, calls,
          effects, failed, closedAt, builtin_tools, mcp_servers, tools_cache,
          allowed_tools, in_flight, remote_calls, delivered>>

NoBody == [project_id |-> None, conversation_id |-> None, message |-> "", cluster_id |-> None]

\* The state of the process before any request, with MCP configured as cfg.
InitWith(cfg) ==
  /\ builtin_tools = BUILTIN_TOOLS
  /\ mcp_servers = cfg
  /\ tools_cache = NoCache
  /\ in_flight = 0
  /\ remote_calls = 0
  /\ delivered = [i \in Inv |-> Waiting]
  /\ allowed_tools = [i \in Inv |-> << >>]
  /\ convs = [c \in {"c1"} |-> [title |-> "earlier", session_id |-> "T0", cluster_id |-> "k0"]]
  /\ messages = << >>
  /\ backup = << >>
  /\ pc = [i \in Inv |-> "idle"]
  /\ body = [i \in Inv |-> NoBody]
  /\ conversation_id = [i \in Inv |-> None]
  /\ session_id = [i \in Inv |-> None]
  /\ final_text = [i \in Inv |-> ""]
  /\ new_session_id = [i \in Inv |-> None]
  /\ error_message = [i \in Inv |-> None]
  /\ frames = [i \in Inv |-> << >>]
  /\ pending = [i \in Inv |-> << >>]
  /\ queue = [i \in Inv |-> << >>]
  /\ gen = [i \in Inv |-> "none"]
  /\ pulled = [i \in Inv |-> << >>]
  /\ calls = [i \in Inv |-> << >>]
  /\ effects = [i \in Inv |-> << >>]
  /\ failed = [i \in Inv |-> None]
  /\ closedAt = [i \in Inv |-> None]

Init == InitWith("databricks")

\* ---------------------------------------------------------- resolution
\* POST /invoke_agent arrives; the handler runs to `await project_storage.get`.
Invoke(i, b) ==
  /\ pc[i] = "idle"
  /\ body' = [body EXCEPT ![i] = b]
  /\ pc' = [pc EXCEPT ![i] = "get_project"]
  /\ UNCHANGED <<tools, store, conversation_id, session_id, accum, frames, pending, inner,
                 effects, failed, closedAt>>

\* Mutant: the handler does not test the looked-up project.
ResolveProject_Unchecked(i) ==
  /\ pc[i] = "get_project"
  /\ conversation_id' = [conversation_id EXCEPT ![i] = body[i].conversation_id]
  /\ pc' = [pc EXCEPT ![i] = "get_conversation"]
  /\ UNCHANGED <<tools, store, body, session_id, accum, frames, pending, inner, effects, failed,
                 closedAt>>

\* project_storage.get returns; on a missing project the error stream is
\* returned, otherwise the handler runs to the conversation create or get.
ResolveProject(i) ==
  /\ pc[i] = "get_project"
  /\ IF body[i].project_id \notin ExistingProjects
       THEN /\ pending' = [pending EXCEPT ![i] = ProjectNotFound(body[i])]
            /\ pc' = [pc EXCEPT ![i] = "error_stream"]
            /\ UNCHANGED conversation_id
       ELSE /\ conversation_id' = [conversation_id EXCEPT ![i] = body[i].conversation_id]
            /\ pc' = [pc EXCEPT ![i] = "get_conversation"]
            /\ UNCHANGED pending
  /\ UNCHANGED <<tools, store, body, session_id, accum, frames, inner, effects, failed, closedAt>>

\* Mutant: a supplied id that is not found gets a new conversation instead
\* of the error stream.
ResolveConversation_GetOrCreate(i) ==
  /\ pc[i] = "get_conversation"
  /\ IF ~Truthy(conversation_id[i]) \/ conversation_id[i] \notin DOMAIN convs
       THEN /\ convs' = [c \in DOMAIN convs \cup {NewId(i)} |->
                          IF c = NewId(i)
                            THEN [title |-> Title(body[i].message), session_id |-> None,
                                  cluster_id |-> None]
                            ELSE convs[c]]
            /\ conversation_id' = [conversation_id EXCEPT ![i] = NewId(i)]
            /\ session_id' = [session_id EXCEPT ![i] = None]
       ELSE /\ session_id' = [session_id EXCEPT ![i] = convs[conversation_id[i]].session_id]
            /\ UNCHANGED <<convs, conversation_id>>
  /\ pc' = [pc EXCEPT ![i] = "start"]
  /\ UNCHANGED <<tools, messages, backup, body, accum, frames, pending, inner, effects, failed,
                 closedAt>>

\* conv_storage.create or conv_storage.get returns; the handler reads the
\* stored session id and returns the streaming response.
ResolveConversation(i) ==
  /\ pc[i] = "get_conversation"
  /\ IF ~Truthy(conversation_id[i])
       THEN /\ convs' = [c \in DOMAIN convs \cup {NewId(i)} |->
                          IF c = NewId(i)
                            THEN [title |-> Title(body[i].message), session_id |-> None,
                                  cluster_id |-> None]
                            ELSE convs[c]]
            /\ conversation_id' = [conversation_id EXCEPT ![i] = NewId(i)]
            /\ session_id' = [session_id EXCEPT ![i] = None]
            /\ pc' = [pc EXCEPT ![i] = "start"]
            /\ UNCHANGED pending
       ELSE IF conversation_id[i] \notin DOMAIN convs
         THEN /\ pending' = [pending EXCEPT ![i] = ConversationNotFound(conversation_id[i])]
              /\ pc' = [pc EXCEPT ![i] = "error_stream"]
              /\ UNCHANGED <<convs, conversation_id, session_id>>
         ELSE /\ session_id' = [session_id EXCEPT ![i] = convs[conversation_id[i]].session_id]
              /\ pc' = [pc EXCEPT ![i] = "start"]
              /\ UNCHANGED <<convs, conversation_id, pending>>
  /\ UNCHANGED <<tools, messages, backup, body, accum, frames, inner, effects, failed, closedAt>>

\* error_generator yields its next frame; after the last one it is exhausted.
ErrorStream(i) ==
  /\ pc[i] = "error_stream"
  /\ pending[i] # << >>
  /\ frames' = [frames EXCEPT ![i] = Append(@, Head(pending[i]))]
  /\ pending' = [pending EXCEPT ![i] = Tail(@)]
  /\ pc' = [pc EXCEPT ![i] = IF Tail(pending[i]) = << >> THEN "done" ELSE "error_stream"]
  /\ UNCHANGED <<tools, store, args, accum, inner, effects, failed, closedAt>>

\* Mutant: the frame carries the id of the request, not the resolved one.
EmitCreated_RequestId(i) ==
  /\ pc[i] = "start"
  /\ frames' = [frames EXCEPT ![i] = Append(@, CreatedFrame(body[i].conversation_id))]
  /\ pc' = [pc EXCEPT ![i] = "created"]
  /\ UNCHANGED <<tools, store, args, accum, pending, inner, effects, failed, closedAt>>

\* stream_and_store starts and yields conversation.created.
EmitCreated(i) ==
  /\ pc[i] = "start"
  /\ frames' = [frames EXCEPT ![i] = Append(@, CreatedFrame(conversation_id[i]))]
  /\ pc' = [pc EXCEPT ![i] = "created"]
  /\ UNCHANGED <<tools, store, args, accum, pending, inner, effects, failed, closedAt>>

\* ----------------------------------------------------------- streaming
\* The events at the front of q the loop has no branch for are passed over.
RECURSIVE DropIgnored(_)
DropIgnored(q) ==
  IF q = << >> THEN q
  ELSE IF RouterHandles(Head(q)) THEN q
  ELSE DropIgnored(Tail(q))

\* Mutant: the persistence step starts as soon as no event is left to yield.
AfterEvents_Eager(g) == "save_user"

\* With no event left to yield, the async for awaits the next native message
\* while stream_agent_response runs, and is left for the first write of the
\* persistence step when it has ended.
AfterEvents(g) == IF g = "running" THEN "query" ELSE "save_user"

\* stream_and_store runs on from inside its try block, with q the events the
\* current native message still has to yield and g the state of
\* stream_agent_response, up to its next suspension: the yield of a frame,
\* the await of the next native message, or the await of the first write.
Consume(i, q, g) ==
  LET rest == DropIgnored(q) IN
  IF rest = << >>
    THEN /\ pc' = [pc EXCEPT ![i] = AfterEvents(g)]
         /\ queue' = [queue EXCEPT ![i] = << >>]
         /\ gen' = [gen EXCEPT ![i] = g]
         /\ UNCHANGED <<accum, frames>>
    ELSE
      LET ev == Head(rest)
          ns == SessionAfter(ev, new_session_id[i])
      IN
      IF Serializable(Payload(ev, ns))
        THEN /\ final_text' = [final_text EXCEPT ![i] = TextAfter(ev, @)]
             /\ new_session_id' = [new_session_id EXCEPT ![i] = ns]
             /\ error_message' = [error_message EXCEPT ![i] = ErrorAfter(ev, @)]
             /\ frames' = [frames EXCEPT ![i] = Append(@, sse_event(Payload(ev, ns)))]
             /\ queue' = [queue EXCEPT ![i] = Tail(rest)]
             /\ gen' = [gen EXCEPT ![i] = g]
             /\ pc' = [pc EXCEPT ![i] = "yielded"]
        ELSE \* sse_event raises inside the try block: the except clause
             /\ final_text' = [final_text EXCEPT ![i] = TextAfter(ev, @)]
             /\ new_session_id' = [new_session_id EXCEPT ![i] = ns]
             /\ error_message' = [error_message EXCEPT ![i] = SerializeError]
             /\ frames' = [frames EXCEPT ![i] = Append(@, ExceptFrame(SerializeError))]
             /\ queue' = [queue EXCEPT ![i] = << >>]
             /\ gen' = [gen EXCEPT ![i] = "ended"]
             /\ pc' = [pc EXCEPT ![i] = "yielded"]

\* Mutant: no except clause around the event loop; the exception ends the
\* generator, and the stream with it.
RaiseToRouter_Uncaught(i, e) ==
  /\ error_message' = [error_message EXCEPT ![i] = e]
  /\ gen' = [gen EXCEPT ![i] = "ended"]
  /\ pc' = [pc EXCEPT ![i] = "done"]
  /\ UNCHANGED <<calls, final_text, new_session_id, frames>>

\* Something stream_agent_response does before query() raises e: it is
\* outside the try block there, so it reaches the except clause of
\* stream_and_store, which yields an error frame.
RaiseToRouter(i, e) ==
  /\ error_message' = [error_message EXCEPT ![i] = e]
  /\ frames' = [frames EXCEPT ![i] = Append(@, ExceptFrame(e))]
  /\ gen' = [gen EXCEPT ![i] = "ended"]
  /\ pc' = [pc EXCEPT ![i] = "yielded"]
  /\ UNCHANGED <<calls, final_text, new_session_id>>

\* Mutant: the conversation's session id is not handed on as resume.
CallRuntime_Fresh(i, allowed) ==
  /\ calls' = [calls EXCEPT ![i] = Append(@, [resume |-> None, allowed_tools |-> allowed])]
  /\ gen' = [gen EXCEPT ![i] = "running"]
  /\ pc' = [pc EXCEPT ![i] = "query"]
  /\ UNCHANGED <<accum, frames>>

\* Mutant: the resume token is read from the conversation when the runtime
\* is called, not taken from the handler's local.
CallRuntime_Reread(i, allowed) ==
  /\ calls' = [calls EXCEPT ![i] =
                 Append(@, [resume |-> convs[conversation_id[i]].session_id,
                            allowed_tools |-> allowed])]
  /\ gen' = [gen EXCEPT ![i] = "running"]
  /\ pc' = [pc EXCEPT ![i] = "query"]
  /\ UNCHANGED <<accum, frames>>

\* ClaudeCodeOptions(...) and query(prompt, options): the runtime is called
\* and the first native message awaited.
CallRuntime(i, allowed) ==
  /\ calls' = [calls EXCEPT ![i] =
                 Append(@, [resume |-> session_id[i], allowed_tools |-> allowed])]
  /\ gen' = [gen EXCEPT ![i] = "running"]
  /\ pc' = [pc EXCEPT ![i] = "query"]
  /\ UNCHANGED <<accum, frames>>

\* get_databricks_mcp_tools is entered by invocation i: it hands over the
\* cached list, or else has the caller wait for the remote listing, which it
\* starts unless one is in flight.
AwaitTools(i) ==
  /\ tools_cache' = tools_cache
  /\ IF tools_cache # NoCache
       THEN /\ delivered' = [delivered EXCEPT ![i] = << Handed(tools_cache[1], None) >>]
            /\ UNCHANGED <<in_flight, remote_calls>>
       ELSE /\ delivered' = [delivered EXCEPT ![i] = Waiting]
            /\ IF StartsListing(tools_cache, in_flight)
                 THEN /\ in_flight' = in_flight + 1
                      /\ remote_calls' = remote_calls + 1
                 ELSE UNCHANGED <<in_flight, remote_calls>>

\* A remote listing in flight returns or fails, one of R: a result fills the
\* cache, and every caller waiting is handed the names.
ListingReturns(R) ==
  /\ in_flight > 0
  /\ \E r \in R :
       LET got == Handed(ToolsReturned(tools_cache, r), ListingError(tools_cache, r)) IN
       /\ tools_cache' = CacheAfter(tools_cache, r)
       /\ delivered' = [j \in Inv |->
                          IF pc[j] = "discover" /\ delivered[j] = Waiting
                            THEN << got >> ELSE delivered[j]]
  /\ in_flight' = in_flight - 1
  /\ UNCHANGED <<store, args, accum, frames, pending, inner, effects, failed, closedAt, pc,
                 builtin_tools, mcp_servers, allowed_tools, remote_calls>>

\* Mutant: the runtime is prepared only while no other invocation's runtime
\* call is in progress.
Prepare_Exclusive(i) ==
  /\ pc[i] = "created"
  /\ \A j \in Inv \ {i} : gen[j] # "running"
  /\ \E e \in ErrTexts \cup {None} :
       IF e # None
         THEN RaiseToRouter(i, e) /\ UNCHANGED allowed_tools
         ELSE /\ allowed_tools' = [allowed_tools EXCEPT ![i] = builtin_tools]
              /\ IF Truthy(mcp_servers)
                   THEN /\ pc' = [pc EXCEPT ![i] = "discover"]
                        /\ UNCHANGED <<accum, frames, gen, calls>>
                   ELSE CallRuntime(i, builtin_tools)
  /\ IF pc'[i] = "discover" THEN AwaitTools(i) ELSE UNCHANGED listing
  /\ UNCHANGED <<store, args, pending, queue, pulled, effects, failed, closedAt,
                 builtin_tools, mcp_servers>>

\* stream_and_store is resumed after conversation.created: the body of
\* stream_agent_response runs (project directory, copy of the builtin list,
\* MCP config) up to the await of the tool listing when MCP is configured,
\* and otherwise on (system prompt, options) to query().  Any of it may raise.
Prepare(i) ==
  /\ pc[i] = "created"
  /\ \E e \in ErrTexts \cup {None} :
       IF e # None
         THEN RaiseToRouter(i, e) /\ UNCHANGED allowed_tools
         ELSE /\ allowed_tools' = [allowed_tools EXCEPT ![i] = builtin_tools]
              /\ IF Truthy(mcp_servers)
                   THEN /\ pc' = [pc EXCEPT ![i] = "discover"]
                        /\ UNCHANGED <<accum, frames, gen, calls>>
                   ELSE CallRuntime(i, builtin_tools)
  /\ IF pc'[i] = "discover" THEN AwaitTools(i) ELSE UNCHANGED listing
  /\ UNCHANGED <<store, args, pending, queue, pulled, effects, failed, closedAt,
                 builtin_tools, mcp_servers>>

\* get_databricks_mcp_tools returns to invocation i what it was handed; the
\* names extend allowed_tools, and stream_agent_response runs on (system
\* prompt, options) to query(), or raises on the way.
Discover(i) ==
  /\ pc[i] = "discover"
  /\ delivered[i] # Waiting
  /\ \E e \in ErrTexts \cup {None} :
       LET got == delivered[i][1]
           allowed == Extended(allowed_tools[i], got.names)
       IN
       /\ builtin_tools' = SharedAfterExtend(builtin_tools, got.names)
       /\ allowed_tools' = [allowed_tools EXCEPT ![i] = allowed]
       /\ IF got.err # None THEN RaiseToRouter(i, got.err)
          ELSE IF e # None THEN RaiseToRouter(i, e)
          ELSE CallRuntime(i, allowed)
  /\ UNCHANGED <<store, args, pending, queue, pulled, effects, failed, closedAt,
                 mcp_servers, listing>>

\* The runtime produces its next native message, one of M, as long as it has
\* produced fewer than n.
PullUpTo(i, M, n) ==
  /\ pc[i] = "query"
  /\ Len(pulled[i]) < n
  /\ \E m \in M :
       /\ pulled' = [pulled EXCEPT ![i] = Append(@, m)]
       /\ Consume(i, Normalise(m), "running")
  /\ UNCHANGED <<tools, store, args, pending, calls, effects, failed, closedAt>>

\* The runtime produces its next native message, one of M.
PullMessage(i, M) == PullUpTo(i, M, MaxMsgs)

\* The runtime's sequence ends: the loop is left for the persistence step.
EndOfMessages(i) ==
  /\ pc[i] = "query"
  /\ Consume(i, << >>, "ended")
  /\ UNCHANGED <<tools, store, args, pending, pulled, calls, effects, failed, closedAt>>

\* Mutant: after its error event stream_agent_response goes on with the
\* native sequence.
RuntimeRaises_GoesOn(i) ==
  /\ pc[i] = "query"
  /\ \E e \in ErrTexts : Consume(i, << ErrorEvent(e) >>, "running")
  /\ UNCHANGED <<tools, store, args, pending, pulled, calls, effects, failed, closedAt>>

\* query() raises: stream_agent_response yields an error event and ends.
RuntimeRaises(i) ==
  /\ pc[i] = "query"
  /\ \E e \in ErrTexts : Consume(i, << ErrorEvent(e) >>, "ended")
  /\ UNCHANGED <<tools, store, args, pending, pulled, calls, effects, failed, closedAt>>

\* The consumer asks for the next frame after one yielded inside the loop or
\* by the except clause.
Resume(i) ==
  /\ pc[i] = "yielded"
  /\ Consume(i, queue[i], gen[i])
  /\ UNCHANGED <<tools, store, args, pending, pulled, calls, effects, failed, closedAt>>

\* ---------------------------------------------------------- persistence
\* Mutant: the session id is written on every turn.
UpdatesSession_Always(ns) == TRUE

\* if new_session_id
UpdatesSession(ns) == Truthy(ns)

\* if body.cluster_id
UpdatesCluster(b) == Truthy(b.cluster_id)

\* The call the try block makes after the cluster-id condition.
AfterCluster(i) == "mark"

\* The call the try block makes after the session-id condition.
AfterSession(i) == IF UpdatesCluster(body[i]) THEN "save_cluster" ELSE AfterCluster(i)

\* The call the try block makes after the assistant-message condition.
AfterAssistant(i) ==
  IF UpdatesSession(new_session_id[i]) THEN "save_session" ELSE AfterSession(i)

\* The call the try block makes after the user message is saved.
AfterUser(i) ==
  IF SavesAssistant(final_text[i], error_message[i]) THEN "save_assistant"
  ELSE AfterAssistant(i)

UserRow(i) ==
  [conversation_id |-> conversation_id[i], role |-> "user", content |-> body[i].message,
   is_error |-> FALSE]

AssistantRow(i) ==
  [conversation_id |-> conversation_id[i], role |-> "assistant",
   content |-> AssistantContent(final_text[i], error_message[i]),
   is_error |-> IsError(error_message[i])]

\* Mutant: a call inside the try block that raises is not caught and ends
\* the generator.
CatchAndComplete_Uncaught(i, what) ==
  /\ failed' = [failed EXCEPT ![i] = what]
  /\ pc' = [pc EXCEPT ![i] = "done"]
  /\ UNCHANGED <<store, effects, frames>>

\* Mutant: the except clause reports the failed call to the client.
CatchAndComplete_Surfaced(i, what) ==
  /\ failed' = [failed EXCEPT ![i] = what]
  /\ frames' = [frames EXCEPT ![i] =
                  @ \o << ExceptFrame("Failed to save messages"),
                          CompletedFrame(error_message[i]) >>]
  /\ pc' = [pc EXCEPT ![i] = "completed"]
  /\ UNCHANGED <<store, effects>>

\* Mutant: after a call that raised, the try block goes on to the backup
\* signal.
CatchAndComplete_GoesOn(i, what) ==
  /\ failed' = [failed EXCEPT ![i] = what]
  /\ pc' = [pc EXCEPT ![i] = "mark"]
  /\ UNCHANGED <<store, effects, frames>>

\* A call inside the try block raised: the except clause logs it, and the
\* generator goes on to yield stream.completed.
CatchAndComplete(i, what) ==
  /\ failed' = [failed EXCEPT ![i] = what]
  /\ frames' = [frames EXCEPT ![i] = Append(@, CompletedFrame(error_message[i]))]
  /\ pc' = [pc EXCEPT ![i] = "completed"]
  /\ UNCHANGED <<store, effects>>

\* Mutant: the user message is saved only together with an assistant message.
SaveUser_OnlyWithReply(i) ==
  /\ pc[i] = "save_user"
  /\ \E ok \in BOOLEAN :
       IF ok
         THEN /\ messages' = IF SavesAssistant(final_text[i], error_message[i])
                               THEN Append(messages, UserRow(i)) ELSE messages
              /\ effects' = [effects EXCEPT ![i] = Append(@, "user")]
              /\ pc' = [pc EXCEPT ![i] = AfterUser(i)]
              /\ UNCHANGED <<convs, backup, frames, failed>>
         ELSE CatchAndComplete(i, "user")
  /\ UNCHANGED <<tools, args, accum, pending, inner, closedAt>>

\* conv_storage.add_message(role='user') returns or raises.
SaveUser(i) ==
  /\ pc[i] = "save_user"
  /\ \E ok \in BOOLEAN :
       IF ok
         THEN /\ messages' = Append(messages, UserRow(i))
              /\ effects' = [effects EXCEPT ![i] = Append(@, "user")]
              /\ pc' = [pc EXCEPT ![i] = AfterUser(i)]
              /\ UNCHANGED <<convs, backup, frames, failed>>
         ELSE CatchAndComplete(i, "user")
  /\ UNCHANGED <<tools, args, accum, pending, inner, closedAt>>

\* conv_storage.add_message(role='assistant') returns or raises.
SaveAssistant(i) ==
  /\ pc[i] = "save_assistant"
  /\ \E ok \in BOOLEAN :
       IF ok
         THEN /\ messages' = Append(messages, AssistantRow(i))
              /\ effects' = [effects EXCEPT ![i] = Append(@, "assistant")]
              /\ pc' = [pc EXCEPT ![i] = AfterAssistant(i)]
              /\ UNCHANGED <<convs, backup, frames, failed>>
         ELSE CatchAndComplete(i, "assistant")
  /\ UNCHANGED <<tools, args, accum, pending, inner, closedAt>>

\* Mutant: the token is written only over the token the invocation resumed.
UpdateSession_FirstWins(i) ==
  /\ pc[i] = "save_session"
  /\ convs' = IF convs[conversation_id[i]].session_id = session_id[i]
                THEN [convs EXCEPT ![conversation_id[i]].session_id = new_session_id[i]]
                ELSE convs
  /\ effects' = [effects EXCEPT ![i] = Append(@, "session")]
  /\ pc' = [pc EXCEPT ![i] = AfterSession(i)]
  /\ UNCHANGED <<messages, backup, frames, failed>>
  /\ UNCHANGED <<tools, args, accum, pending, inner, closedAt>>

\* conv_storage.update_session_id returns or raises.
UpdateSession(i) ==
  /\ pc[i] = "save_session"
  /\ \E ok \in BOOLEAN :
       IF ok
         THEN /\ convs' = [convs EXCEPT ![conversation_id[i]].session_id = new_session_id[i]]
              /\ effects' = [effects EXCEPT ![i] = Append(@, "session")]
              /\ pc' = [pc EXCEPT ![i] = AfterSession(i)]
              /\ UNCHANGED <<messages, backup, frames, failed>>
         ELSE CatchAndComplete(i, "session")
  /\ UNCHANGED <<tools, args, accum, pending, inner, closedAt>>

\* conv_storage.update_cluster_id returns or raises.
UpdateCluster(i) ==
  /\ pc[i] = "save_cluster"
  /\ \E ok \in BOOLEAN :
       IF ok
         THEN /\ convs' = [convs EXCEPT ![conversation_id[i]].cluster_id = body[i].cluster_id]
              /\ effects' = [effects EXCEPT ![i] = Append(@, "cluster")]
              /\ pc' = [pc EXCEPT ![i] = AfterCluster(i)]
              /\ UNCHANGED <<messages, backup, frames, failed>>
         ELSE CatchAndComplete(i, "cluster")
  /\ UNCHANGED <<tools, args, accum, pending, inner, closedAt>>

\* mark_for_backup(body.project_id) returns or raises, and the generator
\* runs on to yield stream.completed.
MarkForBackup(i) ==
  /\ pc[i] = "mark"
  /\ \E ok \in BOOLEAN :
       IF ok
         THEN /\ backup' = Append(backup, body[i].project_id)
              /\ effects' = [effects EXCEPT ![i] = Append(@, "backup")]
              /\ frames' = [frames EXCEPT ![i] = Append(@, CompletedFrame(error_message[i]))]
              /\ pc' = [pc EXCEPT ![i] = "completed"]
              /\ UNCHANGED <<convs, messages, failed>>
         ELSE CatchAndComplete(i, "backup")
  /\ UNCHANGED <<tools, args, accum, pending, inner, closedAt>>

\* The consumer asks for the frame after stream.completed: the terminal frame.
EmitDone(i) ==
  /\ pc[i] = "completed"
  /\ frames' = [frames EXCEPT ![i] = Append(@, DoneFrame)]
  /\ pc' = [pc EXCEPT ![i] = "done"]
  /\ UNCHANGED <<tools, store, args, accum, pending, inner, effects, failed, closedAt>>

\* ----------------------------------------------------------- disconnect
\* Where a generator is suspended at a yield, and where at an await.
AtYield(i) ==
  \/ pc[i] \in {"created", "yielded", "completed"}
  \/ pc[i] = "error_stream" /\ frames[i] # << >>

AtAwait(i) == pc[i] \in {"discover", "query", "save_user", "save_assistant", "save_session", "save_cluster"}

\* The client goes away.  The response task is cancelled: a generator
\* suspended at a yield is closed (GeneratorExit), one suspended at an await
\* gets CancelledError.  Neither is an Exception, so no except clause of
\* stream_and_store or stream_agent_response runs and the generator ends there.
Disconnect(i) ==
  /\ AtYield(i) \/ AtAwait(i)
  /\ closedAt' = [closedAt EXCEPT ![i] = pc[i]]
  /\ pc' = [pc EXCEPT ![i] = "closed"]
  /\ UNCHANGED <<tools, store, args, accum, frames, pending, inner, effects, failed>>

\* ------------------------------------------------------- specification
Turn(i) ==
  \/ \E b \in Bodies : Invoke(i, b)
  \/ ResolveProject(i)
  \/ ResolveConversation(i)
  \/ ErrorStream(i)
  \/ EmitCreated(i)
  \/ Prepare(i)
  \/ ListingReturns({Listed(<< "mcp__databricks__execute_sql" >>)})
  \/ Discover(i)
  \/ PullMessage(i, NativeMsgs)
  \/ EndOfMessages(i)
  \/ RuntimeRaises(i)
  \/ Resume(i)
  \/ SaveUser(i)
  \/ SaveAssistant(i)
  \/ UpdateSession(i)
  \/ UpdateCluster(i)
  \/ MarkForBackup(i)
  \/ EmitDone(i)
  \/ Disconnect(i)

\* One invocation, from request to the end of its stream.
Next == Turn(1)

Spec == Init /\ [][Next]_vars

\* Two invocations of one process, interleaved at their suspension points,
\* with MCP configured or not.
InitMany == \E cfg \in {None, "databricks"} : InitWith(cfg)

TurnMany(i) ==
  \/ \E b \in ManyBodies : Invoke(i, b)
  \/ ResolveProject(i)
  \/ ResolveConversation(i)
  \/ EmitCreated(i)
  \/ Prepare(i)
  \/ ListingReturns(Listings)
  \/ Discover(i)
  \/ PullMessage(i, ManyMsgs(i))
  \/ EndOfMessages(i)
  \/ Resume(i)
  \/ SaveUser(i)
  \/ SaveAssistant(i)
  \/ UpdateSession(i)
  \/ UpdateCluster(i)
  \/ MarkForBackup(i)
  \/ EmitDone(i)
  \/ Disconnect(i)

\* What invocation i can do with its client connected once it was invoked,
\* the return of the tool listing it waits for included.
Progress(i) ==
  \/ ResolveProject(i)
  \/ ResolveConversation(i)
  \/ EmitCreated(i)
  \/ Prepare(i)
  \/ pc[i] = "discover" /\ delivered[i] = Waiting /\ ListingReturns(Listings)
  \/ Discover(i)
  \/ EndOfMessages(i)
  \/ Resume(i)
  \/ SaveUser(i)
  \/ SaveAssistant(i)
  \/ UpdateSession(i)
  \/ UpdateCluster(i)
  \/ MarkForBackup(i)
  \/ EmitDone(i)

NextMany == \E i \in Inv : TurnMany(i)

SpecMany == InitMany /\ [][NextMany]_vars

\* Invocation 1 with a runtime that never produces a message nor ends: once
\* query() is called the invocation can only lose its client.
Blocked(i) ==
  \/ \E b \in ManyBodies : Invoke(i, b)
  \/ ResolveProject(i)
  \/ ResolveConversation(i)
  \/ EmitCreated(i)
  \/ Prepare(i)
  \/ ListingReturns(Listings)
  \/ Discover(i)
  \/ Resume(i)
  \/ SaveUser(i)
  \/ SaveAssistant(i)
  \/ UpdateCluster(i)
  \/ MarkForBackup(i)
  \/ EmitDone(i)
  \/ Disconnect(i)

NextBlocked == Blocked(1) \/ TurnMany(2)

\* The event loop runs every task that is ready, and the runtime and the
\* storage of invocation 2 answer: invocation 2 takes its steps.  Nothing is
\* assumed of invocation 1 or of the clients.
SpecBlocked == InitMany /\ [][NextBlocked]_vars /\ WF_vars(Progress(2))

\* One invocation with a connected client and native sequences of up to
\* MaxTokenMsgs system and result messages.
NextToken ==
  \/ \E b \in TokenBodies : Invoke(1, b)
  \/ ResolveProject(1)
  \/ ResolveConversation(1)
  \/ EmitCreated(1)
  \/ Prepare(1)
  \/ ListingReturns({ListingFails})
  \/ Discover(1)
  \/ PullUpTo(1, TokenMsgs, MaxTokenMsgs)
  \/ EndOfMessages(1)
  \/ Resume(1)
  \/ SaveUser(1)
  \/ SaveAssistant(1)
  \/ UpdateSession(1)
  \/ UpdateCluster(1)
  \/ MarkForBackup(1)
  \/ EmitDone(1)

SpecToken == Init /\ [][NextToken]_vars

\* An invocation on every path, with runtime sequences of up to MaxLiveMsgs
\* messages that end or raise.
TurnLive(i) ==
  \/ \E b \in LiveBodies : Invoke(i, b)
  \/ ResolveProject(i)
  \/ ResolveConversation(i)
  \/ ErrorStream(i)
  \/ EmitCreated(i)
  \/ Prepare(i)
  \/ ListingReturns(Listings)
  \/ Discover(i)
  \/ PullUpTo(i, LiveMsgs, MaxLiveMsgs)
  \/ EndOfMessages(i)
  \/ RuntimeRaises(i)
  \/ Resume(i)
  \/ SaveUser(i)
  \/ SaveAssistant(i)
  \/ UpdateSession(i)
  \/ UpdateCluster(i)
  \/ MarkForBackup(i)
  \/ EmitDone(i)
  \/ Disconnect(i)

\* A second invocation beside it, as far as its call of the runtime or the
\* error frame of a failed preparation: it shares the storage and the tool
\* listing, and may lose its client at any point.
Beside(i) ==
  \/ \E b \in ManyBodies : Invoke(i, b)
  \/ ResolveProject(i)
  \/ ResolveConversation(i)
  \/ EmitCreated(i)
  \/ Prepare(i)
  \/ Discover(i)
  \/ Disconnect(i)

NextLive == TurnLive(1) \/ Beside(2)

\* What an invoked invocation does when the event loop runs it, its client
\* asks for the next frame, and the collaborator it awaits answers: storage
\* returns or raises, the tool listing returns, the runtime produces a
\* message, ends or raises.
Runs(i) ==
  \/ Progress(i)
  \/ ErrorStream(i)
  \/ PullUpTo(i, LiveMsgs, MaxLiveMsgs)
  \/ RuntimeRaises(i)

\* The event loop runs invocation 1 whenever it is ready and every call it
\* awaits answers; nothing is assumed of invocation 2 or of the clients,
\* which may leave at any point.
SpecLive == Init /\ [][NextLive]_vars /\ WF_vars(Runs(1))

\* One invocation creating a conversation, up to conversation.created, for
\* messages of every length.
NextTitle ==
  \/ \E b \in TitleBodies : Invoke(1, b)
  \/ ResolveProject(1)
  \/ ResolveConversation(1)
  \/ EmitCreated(1)

SpecTitle == Init /\ [][NextTitle]_vars

\* --------------------------------------------------- reading the state
FrameType(f) == IF "json" \in DOMAIN f THEN f.json.type ELSE "DONE"

Positions(fs, t) == {k \in DOMAIN fs : FrameType(fs[k]) = t}

CountOf(fs, t) == Cardinality(Positions(fs, t))

\* The suspension point an invocation is at, or was at when its client left.
Where(i) == IF pc[i] = "closed" THEN closedAt[i] ELSE pc[i]

\* The invocation passed project and conversation resolution.
Resolved(i) ==
  \/ Where(i) \in {"start", "created", "discover", "query", "yielded", "save_user", "save_assistant",
                   "save_session", "save_cluster", "mark", "completed"}
  \/ pc[i] = "done" /\ gen[i] # "none"

\* The invocation was answered with the error stream.
ShortCircuit(i) == Where(i) = "error_stream" \/ (pc[i] = "done" /\ gen[i] = "none")

Rows(i, role) ==
  {k \in DOMAIN messages :
     messages[k].conversation_id = conversation_id[i] /\ messages[k].role = role}

InitialConvs ==
  [c \in {"c1"} |-> [title |-> "earlier", session_id |-> "T0", cluster_id |-> "k0"]]

\* --------------------------------------------------------------- claims

\* C1: a stream consumed to its end holds the terminal frame, and at any
\* moment a terminal frame in a stream is its last frame, so there is exactly
\* one and nothing follows it.
C1_DoneOnceAndLast ==
  \A i \in Inv :
    /\ \A k \in DOMAIN frames[i] : frames[i][k] = DoneFrame => k = Len(frames[i])
    /\ pc[i] = "done" => frames[i] # << >> /\ frames[i][Len(frames[i])] = DoneFrame

\* A full-path stream that ended after a runtime error and a failed write.
C1_Witness ==
  /\ pc[1] = "done" /\ Resolved(1)
  /\ error_message[1] # None /\ failed[1] # None
  /\ CountOf(frames[1], "DONE") = 1

\* C2: with the project absent the stream is a prefix of [error, DONE] and
\* is exactly that once it ended; nothing is created, written, called or
\* signalled.
C2_MissingProject ==
  \A i \in Inv :
    (pc[i] # "idle" /\ body[i].project_id \notin ExistingProjects) =>
      /\ Len(frames[i]) <= 2
      /\ Len(frames[i]) >= 1 => FrameType(frames[i][1]) = "error"
      /\ Len(frames[i]) = 2 => frames[i][2] = DoneFrame
      /\ pc[i] = "done" => Len(frames[i]) = 2
      /\ convs = InitialConvs /\ messages = << >> /\ backup = << >>
      /\ calls[i] = << >> /\ effects[i] = << >>

C2_Witness ==
  /\ pc[1] = "done" /\ body[1].project_id = "px"
  /\ Len(frames[1]) = 2

\* C3: with a conversation id supplied and not found the stream is a prefix
\* of [error, DONE] and is exactly that once it ended; no conversation is
\* created in its place, nothing is written, called or signalled.
C3_MissingConversation ==
  \A i \in Inv :
    ( /\ pc[i] \notin {"idle", "get_project", "get_conversation"}
      /\ body[i].project_id \in ExistingProjects
      /\ Truthy(body[i].conversation_id)
      /\ body[i].conversation_id \notin DOMAIN InitialConvs ) =>
      /\ Len(frames[i]) <= 2
      /\ Len(frames[i]) >= 1 => FrameType(frames[i][1]) = "error"
      /\ Len(frames[i]) = 2 => frames[i][2] = DoneFrame
      /\ pc[i] = "done" => Len(frames[i]) = 2
      /\ convs = InitialConvs /\ messages = << >> /\ backup = << >>
      /\ calls[i] = << >> /\ effects[i] = << >>

C3_Witness ==
  /\ pc[1] = "done" /\ body[1].project_id = "p1" /\ body[1].conversation_id = "cx"
  /\ Len(frames[1]) = 2

\* C4: past resolution the first frame is conversation.created with the
\* resolved id (the new conversation's id when none was supplied, else the
\* supplied one), no other frame is one, and the runtime is not called before
\* it is out.
C4_CreatedFirst ==
  \A i \in Inv :
    Resolved(i) =>
      LET resolved == IF Truthy(body[i].conversation_id) THEN body[i].conversation_id
                      ELSE NewId(i)
      IN
      /\ frames[i] # << >> =>
           /\ frames[i][1] = [sse |-> "data",
                              json |-> [type |-> "conversation.created",
                                        conversation_id |-> resolved]]
           /\ Positions(frames[i], "conversation.created") = {1}
      /\ calls[i] # << >> => frames[i] # << >>
      /\ resolved \in DOMAIN convs

\* A new conversation was created and the runtime has been called.
C4_Witness ==
  /\ Resolved(1) /\ body[1].conversation_id = None
  /\ calls[1] # << >> /\ Len(frames[1]) >= 3
  /\ frames[1][1].json.conversation_id = "n1"

\* C5 as stated: a resolved invocation whose stream ran to its end has
\* exactly one user row in its conversation, holding the input message.
C5_ExactlyOneUserMessage ==
  \A i \in Inv :
    (pc[i] = "done" /\ Resolved(i)) =>
      /\ Cardinality(Rows(i, "user")) = 1
      /\ \A k \in Rows(i, "user") : messages[k].content = body[i].message

\* C5 amended: the user row is written at most once, always with the input
\* message, and at the end of the stream it is there exactly when the write
\* of it did not raise, whatever the runtime did.
C5_UserMessageUnlessWriteFails ==
  \A i \in Inv :
    Resolved(i) =>
      /\ Cardinality(Rows(i, "user")) <= 1
      /\ \A k \in Rows(i, "user") :
           messages[k].content = body[i].message /\ messages[k].is_error = FALSE
      /\ pc[i] = "done" => (Cardinality(Rows(i, "user")) = 1 <=> failed[i] # "user")

\* The runtime failed after a message was forwarded and the input was saved.
C5_Witness ==
  /\ pc[1] = "done" /\ Resolved(1)
  /\ pulled[1] # << >> /\ error_message[1] # None
  /\ body[1].message = "hi"
  /\ Cardinality(Rows(1, "user")) = 1

\* C6: when every write of the persistence step succeeded, an assistant row
\* exists iff text was accumulated or an error occurred, and with no text and
\* an error of message m it reads "Error: " + m with the error flag set.
C6_AssistantIffTextOrError ==
  \A i \in Inv :
    (pc[i] = "done" /\ Resolved(i) /\ failed[i] = None) =>
      /\ Rows(i, "assistant") # {} <=> (final_text[i] # "" \/ error_message[i] # None)
      /\ (final_text[i] = "" /\ error_message[i] # None) =>
           \E k \in Rows(i, "assistant") :
             /\ messages[k].content = "Error: " \o error_message[i]
             /\ messages[k].is_error = TRUE

\* The session id a native message carries, or None.
InitToken(m) ==
  IF m.kind = "SystemMessage" /\ m.subtype = "init" /\ "session_id" \in DOMAIN m.data
    THEN m.data.session_id ELSE None

ResultToken(m) == IF m.kind = "ResultMessage" THEN m.session_id ELSE None

\* C7: after a turn whose writes all succeeded, the stored token is the
\* token of the result that followed an init token, and it is the init token
\* when no result of the turn carried a token.
C7_TokenResolution ==
  \A i \in Inv :
    (pc[i] = "done" /\ Resolved(i) /\ failed[i] = None) =>
      LET ms == pulled[i]
          stored == convs[conversation_id[i]].session_id
          inits == {k \in DOMAIN ms : Truthy(InitToken(ms[k]))}
          results == {k \in DOMAIN ms : Truthy(ResultToken(ms[k]))}
      IN
      /\ \A l \in results :
           ((\E k \in inits : k < l) /\ (\A j \in inits \cup results : j <= l))
             => stored = ResultToken(ms[l])
      /\ (inits # {} /\ results = {}) =>
           \A k \in inits : (\A j \in inits : k <= j) => stored = InitToken(ms[k])

\* C8: a generator closed while suspended at a frame of the stream has the
\* user row written.  (A closed generator takes no further step.)
C8_DisconnectStillPersists ==
  \A i \in Inv :
    (pc[i] = "closed" /\ closedAt[i] \in {"created", "yielded"}) =>
      \E k \in Rows(i, "user") : messages[k].content = body[i].message

\* C9: the step in which a write of the persistence step raises adds only
\* stream.completed, with is_error telling whether an error frame was already
\* out; after it only the terminal frame is added, and the stream ends with
\* that pair.
C9_PersistenceFailureSilent ==
  /\ [][\A i \in Inv :
          /\ (failed[i] = None /\ failed'[i] # None) =>
               frames'[i] = Append(frames[i],
                                   [sse |-> "data",
                                    json |-> [type |-> "stream.completed",
                                              is_error |-> Positions(frames[i], "error") # {}]])
          /\ failed[i] # None =>
               (frames'[i] = frames[i] \/ frames'[i] = Append(frames[i], DoneFrame))]_vars
  /\ [](\A i \in Inv :
          (failed[i] # None /\ pc[i] = "done") =>
            /\ Len(frames[i]) >= 3
            /\ FrameType(frames[i][Len(frames[i]) - 1]) = "stream.completed"
            /\ frames[i][Len(frames[i])] = DoneFrame)

\* The user write failed in a turn without error; the stream ended normally.
C9_Witness ==
  /\ pc[1] = "done" /\ failed[1] = "user" /\ error_message[1] = None
  /\ Positions(frames[1], "error") = {}
  /\ frames[1][Len(frames[1]) - 1].json = [type |-> "stream.completed", is_error |-> FALSE]

\* C10: a turn in which the runtime call failed and every write succeeded
\* shows exactly one error frame and has the user row and an assistant row
\* with the error flag set.
C10_RuntimeFailure ==
  \A i \in Inv :
    (pc[i] = "done" /\ Resolved(i) /\ failed[i] = None /\ Positions(frames[i], "error") # {}) =>
      /\ CountOf(frames[i], "error") = 1
      /\ Rows(i, "user") # {}
      /\ \E k \in Rows(i, "assistant") : messages[k].is_error = TRUE

\* The invocation is past the event loop of stream_and_store.
PostStream(i) ==
  \/ Where(i) \in {"save_user", "save_assistant", "save_session", "save_cluster", "mark",
                   "completed"}
  \/ pc[i] = "done" /\ gen[i] # "none"

\* The session token of the conversation the request names, before the request.
StoredToken(i) ==
  IF Truthy(body[i].conversation_id)
    THEN InitialConvs[body[i].conversation_id].session_id
    ELSE None

\* The parts of C14 that do not depend on how far the invocation got: the
\* runtime is called at most once, not at all on the error stream, and with
\* the stored session token (None for a conversation just created) as resume.
RuntimeCalls(i) ==
  /\ Len(calls[i]) <= 1
  /\ ShortCircuit(i) => calls[i] = << >>
  /\ gen[i] = "running" => Len(calls[i]) = 1
  /\ calls[i] # << >> => calls[i][1].resume = StoredToken(i)

\* C14 as stated: each invocation calls the agent runtime at most once, exactly
\* once on the full path and never on the short-circuit path, with the stored
\* session token as resumption token (None for a conversation it created).
C14_RuntimeCalledOnce ==
  \A i \in Inv :
    /\ RuntimeCalls(i)
    /\ PostStream(i) => Len(calls[i]) = 1

\* C14 amended: each invocation calls the agent runtime at most once, never on
\* the short-circuit path, and on the full path exactly once unless preparing
\* the call raised, in which case it is not called at all and the stream
\* carries an error frame; the resumption token is the stored session token
\* (None for a conversation it created).
C14_RuntimeCalledOnceUnlessPreparationRaises ==
  \A i \in Inv :
    /\ RuntimeCalls(i)
    /\ PostStream(i) =>
         \/ Len(calls[i]) = 1
         \/ /\ calls[i] = << >>
            /\ pulled[i] = << >>
            /\ error_message[i] # None
            /\ CountOf(frames[i], "error") = 1

\* A resumed conversation ran to the end with one runtime call.
C14_Witness ==
  /\ pc[1] = "done"
  /\ body[1].conversation_id = "c1"
  /\ Len(calls[1]) = 1
  /\ calls[1][1].resume = "T0"

\* C15: a full-path stream consumed to its end closes with stream.completed
\* followed immediately by the terminal frame, and stream.completed reports an
\* error exactly when an error frame comes before it in the stream.
C15_FinalPair ==
  \A i \in Inv :
    pc[i] = "done" /\ gen[i] # "none" =>
      LET n == Len(frames[i]) IN
      /\ n >= 3
      /\ frames[i][n] = DoneFrame
      /\ FrameType(frames[i][n - 1]) = "stream.completed"
      /\ CountOf(frames[i], "stream.completed") = 1
      /\ frames[i][n - 1].json.is_error =
           (\E k \in 1..(n - 2) : FrameType(frames[i][k]) = "error")

\* A turn whose runtime failed with an empty message ended with the final pair.
C15_Witness ==
  /\ pc[1] = "done"
  /\ \E k \in DOMAIN frames[1] :
       FrameType(frames[1][k]) = "error" /\ frames[1][k].json.error = ""
  /\ frames[1][Len(frames[1]) - 1] = sse_event([type |-> "stream.completed", is_error |-> TRUE])

\* C17: an invocation that is through its post-stream phase has signalled the
\* backup collaborator exactly once, as the last effect of the persistence
\* step and before stream.completed, also when a persistence write failed;
\* only the signal itself failing leaves the project unsignalled, and the
\* stream is completed all the same.
C17_BackupSignalledOnce ==
  \A i \in Inv :
    pc[i] \in {"completed", "done"} /\ gen[i] # "none" =>
      /\ CountOf(frames[i], "stream.completed") = 1
      /\ failed[i] # "backup" =>
           /\ Cardinality({k \in DOMAIN effects[i] : effects[i][k] = "backup"}) = 1
           /\ effects[i][Len(effects[i])] = "backup"
           /\ \E k \in DOMAIN backup : backup[k] = body[i].project_id

\* A native message of no class the normaliser tests for.
UnknownMessage(m) ==
  m.kind \notin {"AssistantMessage", "ResultMessage", "SystemMessage", "UserMessage",
                 "StreamEvent"}

\* A content block of no class the normaliser tests for.
UnknownBlock(b) ==
  b.block \notin {"TextBlock", "ThinkingBlock", "ToolUseBlock", "ToolResultBlock"}

\* An assistant message whose first known block, at k, is a text block.
TextAfterUnknown(m, k) ==
  /\ m.kind = "AssistantMessage"
  /\ k \in DOMAIN m.content
  /\ m.content[k].block = "TextBlock"
  /\ \A j \in 1..(k - 1) : UnknownBlock(m.content[j])

\* C18: pulling a native message of an unknown variant, or an assistant
\* message of unknown blocks only, adds no frame and sets no error, and the
\* invocation goes on to await the next message; a text block is forwarded as
\* its text frame whatever unknown blocks precede it in the message and
\* whatever messages were pulled before.
C18_UnknownVariantDropped ==
  [][\A i \in Inv :
       pulled'[i] # pulled[i] =>
         LET m == pulled'[i][Len(pulled'[i])] IN
         /\ \/ UnknownMessage(m)
            \/ /\ m.kind = "AssistantMessage"
               /\ m.content # << >>
               /\ \A k \in DOMAIN m.content : UnknownBlock(m.content[k])
            => /\ frames'[i] = frames[i]
               /\ error_message'[i] = error_message[i]
               /\ pc'[i] = "query"
               /\ gen'[i] = "running"
         /\ \A k \in 1..2 :
              TextAfterUnknown(m, k) =>
                /\ frames'[i] = Append(frames[i], sse_event([type |-> "text", text |-> m.content[k].text]))
                /\ error_message'[i] = error_message[i]
                /\ pc'[i] = "yielded"]_vars

\* A turn whose first native message was of an unknown variant forwarded the
\* text of the next one and completed without an error.
C18_Witness ==
  /\ pc[1] = "done"
  /\ pulled[1] = << OtherMessage, AssistantMessage(<< OtherBlock, TextBlock("a") >>) >>
  /\ CountOf(frames[1], "text") = 1
  /\ CountOf(frames[1], "error") = 0
  /\ final_text[1] = "a"

\* C16: the title of a conversation created by an invocation is the message
\* itself when the message has at most 50 characters, and its first 50
\* characters followed by "..." when it has more; no title is longer than 53.
C16_Title ==
  \A i \in Inv :
    NewId(i) \in DOMAIN convs =>
      LET m == body[i].message
          t == convs[NewId(i)].title
      IN
      /\ Len(m) <= TitleLimit => t = m
      /\ Len(m) > TitleLimit =>
           /\ Len(t) = TitleLimit + 3
           /\ SubSeq(t, 1, TitleLimit) = SubSeq(m, 1, TitleLimit)
           /\ SubSeq(t, TitleLimit + 1, TitleLimit + 3) = "..."
      /\ Len(t) <= TitleLimit + 3

\* A conversation was created for a message of MaxLen characters.
C16_Witness ==
  /\ pc[1] = "created"
  /\ Len(body[1].message) = MaxLen
  /\ MaxLen > TitleLimit
  /\ Len(convs[NewId(1)].title) = TitleLimit + 3

\* Invocation i takes a step that writes the session token.
WritesToken(i) == effects'[i] = Append(effects[i], "session")

\* C11: the stored session token of a conversation never goes from set to
\* null or empty; it changes only when an invocation on that conversation that
\* captured a token writes it, and then to exactly that token; and a turn that
\* captured a token and whose writes all succeeded has written it.
C11_TokenNeverCleared ==
  /\ [][\A c \in DOMAIN convs :
          /\ Truthy(convs[c].session_id) => Truthy(convs'[c].session_id)
          /\ convs'[c].session_id # convs[c].session_id =>
               \E i \in Inv :
                 /\ WritesToken(i)
                 /\ conversation_id[i] = c
                 /\ Truthy(new_session_id[i])
                 /\ convs'[c].session_id = new_session_id[i]]_vars
  /\ [](\A i \in Inv :
          pc[i] = "done" /\ gen[i] # "none" /\ failed[i] = None /\ Truthy(new_session_id[i])
            => \E k \in DOMAIN effects[i] : effects[i][k] = "session")

\* Two turns on conversation c1 are over: one captured T1 and wrote it, the
\* other captured no token, and the stored token is T1.
C11_Witness ==
  /\ pc[1] = "done" /\ pc[2] = "done"
  /\ conversation_id[1] = "c1" /\ conversation_id[2] = "c1"
  /\ new_session_id[1] = "T1"
  /\ new_session_id[2] = None
  /\ failed[2] = None
  /\ convs["c1"].session_id = "T1"

\* C13: invocations are not excluded from one another: whatever the other
\* invocation is doing, on the same conversation or not, an invocation is
\* never answered with the error stream for a conversation that exists, and
\* until its stream is over it always has a next step of its own to take; and
\* a token write always stores the writer's token, whatever the other
\* invocation stored before, so the last writer wins.
C13_NoExclusionLastWriterWins ==
  /\ [](\A i \in Inv :
          /\ ~ShortCircuit(i)
          /\ pc[i] \notin {"idle", "done", "closed"} => ENABLED Progress(i))
  /\ [][\A i \in Inv :
          WritesToken(i) =>
            /\ convs'[conversation_id[i]].session_id = new_session_id[i]
            /\ \A c \in DOMAIN convs \ {conversation_id[i]} : convs'[c] = convs[c]]_vars

\* Both invocations resumed c1 from the token T0, so neither waited for the
\* other, both ran to the terminal frame, invocation 2 wrote T2 and then
\* invocation 1 wrote T1 over it.
C13_Witness ==
  /\ pc[1] = "done" /\ pc[2] = "done"
  /\ conversation_id[1] = "c1" /\ conversation_id[2] = "c1"
  /\ session_id[1] = "T0" /\ session_id[2] = "T0"
  /\ new_session_id[1] = "T1" /\ new_session_id[2] = "T2"
  /\ \E k \in DOMAIN effects[1] : effects[1][k] = "session"
  /\ \E k \in DOMAIN effects[2] : effects[2][k] = "session"
  /\ convs["c1"].session_id = "T1"

\* C12: while the runtime call of invocation 1 never yields, invocation 2,
\* once invoked, reaches the terminal frame unless its client leaves; when it
\* does and none of its writes raised, its user message is stored and, on a
\* conversation of its own, so is its token; and every write of an invocation
\* touches only that invocation's conversation.
C12_Independent ==
  /\ (pc[2] # "idle") ~> (pc[2] \in {"done", "closed"})
  /\ [](pc[2] = "done" /\ failed[2] = None =>
          /\ Rows(2, "user") # {}
          /\ Truthy(new_session_id[2]) /\ conversation_id[1] # conversation_id[2]
               => convs[conversation_id[2]].session_id = new_session_id[2])
  /\ [][\A i \in Inv :
          effects'[i] # effects[i] =>
            /\ \A c \in DOMAIN convs \ {conversation_id[i]} : convs'[c] = convs[c]
            /\ messages' # messages =>
                 /\ Len(messages') = Len(messages) + 1
                 /\ SubSeq(messages', 1, Len(messages)) = messages
                 /\ messages'[Len(messages')].conversation_id = conversation_id[i]]_vars

\* Invocation 1 waits for its runtime on conversation c1 while invocation 2,
\* on a conversation of its own, is through with its token stored.
C12_Witness ==
  /\ pc[1] = "query"
  /\ conversation_id[1] = "c1"
  /\ pc[2] = "done"
  /\ conversation_id[2] = NewId(2)
  /\ Rows(2, "user") # {}
  /\ convs[NewId(2)].session_id = "T2"
  /\ convs[NewId(2)].cluster_id = "k1"
  /\ convs["c1"] = InitialConvs["c1"]

\* The builtin tools, as the source lists them.
Builtin == << "Read", "Write", "Edit", "Glob", "Grep", "Skill" >>

\* Invocation i takes the step that calls the runtime.
CallsRuntime(i) == calls'[i] # calls[i]

\* C19: the allow-list handed to the runtime is the builtin list when MCP is
\* not configured, and else the builtin list followed by the names the
\* invocation was handed, which are the cached names or, after a listing that
\* failed or found nothing, none; and the shared builtin list is never
\* changed.
C19_AllowList ==
  /\ [](builtin_tools = Builtin)
  /\ [][\A i \in Inv :
          CallsRuntime(i) =>
            LET a == calls'[i][Len(calls'[i])].allowed_tools IN
            /\ allowed_tools'[i] = a
            /\ SubSeq(a, 1, Len(Builtin)) = Builtin
            /\ IF ~Truthy(mcp_servers) THEN a = Builtin
               ELSE a = Builtin \o delivered[i][1].names]_vars
  /\ [][\A i \in Inv :
          (delivered'[i] # delivered[i] /\ delivered'[i] # Waiting) =>
            \/ delivered'[i][1].names = << >>
            \/ tools_cache' # NoCache /\ delivered'[i][1].names = tools_cache'[1]]_vars

\* Invocation 2 got the two names from the cache that invocation 1 filled,
\* after the builtin ones.
C19_Witness ==
  /\ calls[1] # << >> /\ calls[2] # << >>
  /\ calls[1][1].allowed_tools = Builtin \o << "mcp__a", "mcp__b" >>
  /\ calls[2][1].allowed_tools = Builtin \o << "mcp__a", "mcp__b" >>
  /\ pc[1] = "done" /\ pc[2] = "done"
  /\ builtin_tools = Builtin

\* Invocation i takes the step on which its tool listing fails.
ListingFailed(i) ==
  /\ pc[i] = "discover"
  /\ pc'[i] \in {"query", "yielded"}
  /\ tools_cache = NoCache

C23_StreamEventForwarded ==
  \A i \in Inv :
    pc[i] # "closed" =>
      /\ CountOf(frames[i], "stream_event")
           = Cardinality({k \in DOMAIN pulled[i] : pulled[i][k].kind = "StreamEvent"})
      /\ \A k \in Positions(frames[i], "stream_event") :
           /\ frames[i][k].json.event = StreamEvent.event
           /\ frames[i][k].json.session_id = StreamEvent.session_id

\* A message of ms carried a session token.
Captured(ms) ==
  \E k \in DOMAIN ms : Truthy(InitToken(ms[k])) \/ Truthy(ResultToken(ms[k]))

\* C24: pulling a system message adds its system frame, and sets the token
\* candidate to the token of its data when its subtype is init, it carries
\* data and no earlier message of the turn carried a token; otherwise the
\* candidate stays as it is.
C24_InitCapture ==
  [][\A i \in Inv :
       (pulled'[i] # pulled[i] /\ pulled'[i][Len(pulled'[i])].kind = "SystemMessage") =>
         LET m == pulled'[i][Len(pulled'[i])] IN
         /\ frames'[i] =
              Append(frames[i], sse_event([type |-> "system", subtype |-> m.subtype, data |-> m.data]))
         /\ new_session_id'[i] =
              IF m.subtype = "init" /\ DataTruthy(m.data) /\ ~Captured(pulled[i])
                THEN DataGet(m.data, "session_id")
                ELSE new_session_id[i]]_vars

\* The cluster id of the conversation the request names, before the request.
StoredCluster(i) ==
  IF Truthy(body[i].conversation_id)
    THEN InitialConvs[body[i].conversation_id].cluster_id
    ELSE None

\* C25: once the persistence step of an invocation is over, the stored cluster
\* id is the one the request supplied, whether the token write was done,
\* skipped or raised (the earlier writes and the cluster write itself having
\* succeeded), and it is what it was when the request supplied none.
C25_ClusterOverwritten ==
  \A i \in Inv :
    pc[i] \in {"completed", "done"} /\ gen[i] # "none" =>
      /\ Truthy(body[i].cluster_id) /\ failed[i] \in {None, "session", "backup"}
           => convs[conversation_id[i]].cluster_id = body[i].cluster_id
      /\ ~Truthy(body[i].cluster_id)
           => convs[conversation_id[i]].cluster_id = StoredCluster(i)

\* The place of an effect in the persistence step.
Rank(e) ==
  CASE e = "user" -> 1
    [] e = "assistant" -> 2
    [] e = "session" -> 3
    [] e = "cluster" -> 3
    [] e = "backup" -> 4

\* C26: an invocation has an effect only after its native sequence ended; the
\* user message comes before the assistant message, both before the token and
\* cluster updates, each at most once; and a step that writes a message, the
\* token or the cluster id finds and leaves the stream without stream.completed.
C26_EffectOrder ==
  /\ [](\A i \in Inv :
          /\ effects[i] # << >> => gen[i] = "ended"
          /\ \A k, l \in DOMAIN effects[i] :
               k < l => /\ Rank(effects[i][k]) <= Rank(effects[i][l])
                        /\ effects[i][k] # effects[i][l])
  /\ [][\A i \in Inv :
          (effects'[i] # effects[i] /\ effects'[i][Len(effects'[i])] # "backup") =>
            /\ CountOf(frames[i], "stream.completed") = 0
            /\ frames'[i] = frames[i]]_vars

\* A turn made all five effects, in order.
C26_Witness ==
  /\ pc[1] = "done"
  /\ effects[1] = << "user", "assistant", "session", "cluster", "backup" >>
  /\ CountOf(frames[1], "stream.completed") = 1

\* The texts of the text frames of fs, concatenated in order.
RECURSIVE FrameTexts(_)
FrameTexts(fs) ==
  IF fs = << >> THEN ""
  ELSE (IF FrameType(Head(fs)) = "text" THEN Head(fs).json.text ELSE "") \o FrameTexts(Tail(fs))

\* C27: the transcript buffer is at every moment the concatenation, in order,
\* of the texts of the text frames of the stream, and an assistant message
\* persisted with a non-empty buffer has exactly the buffer as content.
C27_Transcript ==
  \A i \in Inv :
    /\ final_text[i] = FrameTexts(frames[i])
    /\ final_text[i] # "" =>
         \A k \in Rows(i, "assistant") : messages[k].content = FrameTexts(frames[i])

\* A turn with two text frames and a thinking frame persisted the two texts.
C27_Witness ==
  /\ pc[1] = "done"
  /\ CountOf(frames[1], "text") = 2
  /\ CountOf(frames[1], "thinking") = 1
  /\ \E k \in Rows(1, "assistant") : messages[k].content = "ab"

C29_ErrorEndsStream ==
  \A i \in Inv :
    ~ShortCircuit(i) =>
      /\ CountOf(frames[i], "error") <= 1
      /\ \A k \in Positions(frames[i], "error") :
           /\ \A l \in (k + 1)..Len(frames[i]) :
                FrameType(frames[i][l]) \in {"stream.completed", "DONE"}
           /\ Len(frames[i]) > k =>
                frames[i][k + 1] = sse_event([type |-> "stream.completed", is_error |-> TRUE])
           /\ pc[i] = "done" => Len(frames[i]) = k + 2 /\ frames[i][k + 2] = DoneFrame

\* A turn forwarded a text frame, then an error frame, and was consumed to
\* its end.
C29_Witness ==
  /\ pc[1] = "done"
  /\ gen[1] # "none"
  /\ CountOf(frames[1], "text") = 1
  /\ CountOf(frames[1], "error") = 1
  /\ Len(frames[1]) = 5

IsPrefix(s, t) == Len(s) <= Len(t) /\ s = SubSeq(t, 1, Len(s))

\* The five steps of the persistence step.
AllSteps == << "user", "assistant", "session", "cluster", "backup" >>

\* The steps of the persistence step that the turn of invocation i calls for.
Applicable(i) ==
  << "user" >>
    \o (IF final_text[i] # "" \/ Truthy(error_message[i]) THEN << "assistant" >> ELSE << >>)
    \o (IF Truthy(new_session_id[i]) THEN << "session" >> ELSE << >>)
    \o (IF Truthy(body[i].cluster_id) THEN << "cluster" >> ELSE << >>)
    \o << "backup" >>

\* C30 as stated: the effects of an invocation form a prefix of user message,
\* assistant message, token update, cluster update, backup signal.
C30_PrefixOfAllSteps ==
  \A i \in Inv : IsPrefix(effects[i], AllSteps)

\* C30 amended: the effects of an invocation form a prefix of those of the
\* five steps that its turn calls for; when its persistence step is over they
\* are all of them if no step raised, and else the ones before the step that
\* raised; so no assistant message is persisted without the user message and
\* no token is written unless the message writes before it succeeded.
C30_PrefixOfApplicableSteps ==
  \A i \in Inv :
    /\ IsPrefix(effects[i], Applicable(i))
    /\ pc[i] \in {"completed", "done"} /\ gen[i] # "none" =>
         IF failed[i] = None
           THEN effects[i] = Applicable(i)
           ELSE /\ Len(effects[i]) < Len(Applicable(i))
                /\ Applicable(i)[Len(effects[i]) + 1] = failed[i]
    /\ \A k \in DOMAIN effects[i] :
         effects[i][k] \in {"assistant", "session"} => effects[i][1] = "user"

\* The assistant write of a turn that captured a token raised after the user
\* message was written: nothing else was written.
C30_Witness ==
  /\ pc[1] = "done"
  /\ failed[1] = "assistant"
  /\ Truthy(new_session_id[1])
  /\ effects[1] = << "user" >>
  /\ convs[conversation_id[1]].session_id # new_session_id[1]

\* Invocation j reads its conversation after invocation i, on the same
\* conversation, ended with its token step done or not called for.
ResolvesAfter(j, i) ==
  /\ pc[j] = "get_conversation"
  /\ pc'[j] = "start"
  /\ pc[i] = "done" /\ gen[i] # "none"
  /\ failed[i] \in {None, "cluster", "backup"}
  /\ conversation_id'[j] = conversation_id[i]

\* C22: an invocation that resolves its conversation after an earlier one on
\* it is over takes as session id the token the earlier one captured, or when
\* it captured none the token the earlier one had resumed; the session id is
\* not changed afterwards and is what the runtime is called with as resume.
C22_TokenCarriedOver ==
  [][\A i, j \in Inv :
       i # j =>
         /\ ResolvesAfter(j, i) =>
              session_id'[j] = IF Truthy(new_session_id[i]) THEN new_session_id[i]
                               ELSE session_id[i]
         /\ pc[j] \notin {"idle", "get_project", "get_conversation"} =>
              session_id'[j] = session_id[j]
         /\ CallsRuntime(j) => calls'[j][Len(calls'[j])].resume = session_id[j]]_vars

\* Invocation 1 resumed c1 from T0 and stored T1; invocation 2, which read c1
\* afterwards, called the runtime with T1.
C22_Witness ==
  /\ conversation_id[1] = "c1" /\ conversation_id[2] = "c1"
  /\ session_id[1] = "T0"
  /\ new_session_id[1] = "T1"
  /\ pc[1] = "done"
  /\ calls[2] # << >>
  /\ calls[2][1].resume = "T1"

\* Invocation i waits at get_databricks_mcp_tools for a listing in flight.
AwaitsListing(i) == pc[i] = "discover" /\ delivered[i] = Waiting

\* C21: at most one remote listing is in flight at a time; a listing is
\* started only while the cache is empty and none is in flight, so none is
\* started any more once the cache is filled; the cache, once filled, keeps
\* its list; and when a listing returns, all invocations waiting are handed
\* the same names, those put in the cache if it succeeded.
C21_SingleFlight ==
  /\ [](in_flight <= 1)
  /\ [][/\ remote_calls' # remote_calls =>
             /\ remote_calls' = remote_calls + 1
             /\ tools_cache = NoCache
             /\ in_flight = 0
        /\ tools_cache # NoCache => tools_cache' = tools_cache
        /\ in_flight' < in_flight =>
             \A i, j \in Inv :
               AwaitsListing(i) /\ AwaitsListing(j) =>
                 /\ delivered'[i] # Waiting
                 /\ delivered'[i] = delivered'[j]
                 /\ tools_cache' # NoCache => delivered'[i][1].names = tools_cache'[1]]_vars

\* Both invocations wait at the first access of the empty cache, for the one
\* listing that was started.
C21_Witness ==
  /\ AwaitsListing(1) /\ AwaitsListing(2)
  /\ tools_cache = NoCache
  /\ in_flight = 1
  /\ remote_calls = 1

\* Invocation i has stored a session token on its conversation.
Persisted(i) == \E k \in DOMAIN effects[i] : effects[i][k] = "session"

\* C31: the session id is read when the conversation is resolved, with no
\* frame emitted yet, and is not changed afterwards; the runtime is called
\* with it as resume whatever the conversation holds by then; and an
\* invocation that resolves a conversation another one has resolved and not
\* yet stored a token on reads the same session id as that one.
C31_ResumeIsSnapshot ==
  [][\A i, j \in Inv :
       /\ pc[j] = "get_conversation" /\ pc'[j] = "start" =>
            /\ frames'[j] = << >>
            /\ conversation_id[j] \in DOMAIN convs =>
                 session_id'[j] = convs[conversation_id[j]].session_id
            /\ (i # j /\ Resolved(i) /\ conversation_id[i] = conversation_id'[j]
                  /\ ~Persisted(i)) =>
                 session_id'[j] = session_id[i]
       /\ pc[j] \notin {"idle", "get_project", "get_conversation"} =>
            session_id'[j] = session_id[j]
       /\ CallsRuntime(j) =>
            calls'[j][Len(calls'[j])].resume = session_id[j]]_vars

\* Both invocations resolved c1 while it held T0; invocation 1 has stored T1
\* on it since, and both called the runtime with T0.
C31_Witness ==
  /\ conversation_id[1] = "c1" /\ conversation_id[2] = "c1"
  /\ convs["c1"].session_id = "T1"
  /\ Persisted(1)
  /\ ~Persisted(2)
  /\ calls[1] # << >> /\ calls[1][1].resume = "T0"
  /\ calls[2] # << >> /\ calls[2][1].resume = "T0"

\* The stream of invocation i has ended with the DONE frame.
EmittedDone(i) ==
  /\ pc[i] = "done"
  /\ frames[i] # << >>
  /\ frames[i][Len(frames[i])] = DoneFrame

====
